---- MODULE Spec2Model ----
(***************************************************************************)
(* Model of the Thanos wallet front-end client (useThanosClient) and the   *)
(* adapters TaquitoWallet / ThanosSigner: the tracked confirmation id,     *)
(* the pending confirmation, the notification handler and the              *)
(* request/reply round trips through the intercom channel.                 *)
(*                                                                         *)
(* JavaScript runs every handler to completion, so each synchronous        *)
(* stretch of code (up to an await, or a whole notification handler) is    *)
(* one action.  The background authority and the channel are the           *)
(* environment: replies and notifications are drawn from small sets.       *)
(*                                                                         *)
(* Spec is the session with its notifications and confirmation-gated       *)
(* calls, FacadeSpec the request/reply discipline of every facade and      *)
(* adapter operation, PageSpec the confirmation page (ConfirmDAppForm).    *)
(***************************************************************************)
EXTENDS Integers, Sequences, FiniteSets, TLC

\* Number of calls (facade operations and adapter calls) a behaviour makes.
MaxCalls == 2

\* Number of calls a behaviour of the facade alone (FacadeSpec) makes.
MaxFacadeCalls == 1

\* Number of calls a behaviour of the confirmation page (PageSpec) makes.
MaxPageCalls == 3

\* JavaScript null, and a non-null value, for a slot that holds one or none.
Null == <<>>
Some(x) == <<x>>

\* Ids carried by notifications: 1..MaxCalls are the ids nanoid() hands out,
\* 0 is an id this session never generated (a foreign session's id).
NotifIds == 0 .. MaxCalls

\* ThanosConfirmationPayload, by its kind.
Payloads == {"connect", "confirm_operations"}

\* Ids the background gave to pending dApp requests (never one of nanoid's).
DAppIds == {"d1"}

\* Account public key hashes.
Pkhs == {"tz1a", "tz1b"}

\* Values the authority puts in a reply (signature, operation hash, state).
Results == {"r1", "r2"}

\* The per-operation results an OperationsResponse carries (res.opResults).
OpResults == {"o1"}

\* Errors the authority rejects a request with.
AuthorityErrors == {"Declined"}

\* The message thrown by assertResponse.
InvalidResponse == "Invalid response recieved"

\* The message thrown by ThanosSigner.secretKey.
SecretKeyError == "Secret key cannot be exposed"

\* The wallet state the provider holds once its first fetch has resolved.
InitialState == "s0"

\* The message ConfirmDAppForm throws without an id.
NotIdentified == "Not identified"

\* Query strings the confirmation page is entered with (loc.search).
Searches == {"", "?id=", "?id=d1"}

\* new URLSearchParams(search).get("id"): null when the parameter is absent,
\* its value (the empty string included) otherwise.
QueryId(search) ==
    CASE search = "" -> Null
      [] search = "?id=" -> Some("")
      [] search = "?id=d1" -> Some("d1")

VARIABLES
    confirmationIdRef,  \* confirmationIdRef.current: Null or Some(id)
    confirmation,       \* React state `confirmation`: Null or Some([id, payload])
    data,               \* the cached wallet state (SWR key "state")
    calls,              \* every async call made so far, in order of issue
    sent,               \* requests handed to intercom.request, in order
    expiredIds,         \* history: ids whose ConfirmationExpired matched the slot
    lastMsg,            \* history: the notification this step delivered to the
                        \* handler, Null after any other step
    page,               \* the confirmation page (ConfirmDAppForm): where its
                        \* rendering stands, its memoised id, the payload it
                        \* fetched, its React states and (history) the
                        \* renders of the timer task of its last attempt
    settled             \* history: the call that resumed in this step, with
                        \* what its request settled with, what the awaited
                        \* operation returned or threw and the callback
                        \* invocation made; Null after any other step

vars == <<confirmationIdRef, confirmation, data, calls, sent, expiredIds, lastMsg,
          page, settled>>

\* The notifications the channel can deliver (ThanosNotification).
Notifications ==
    [type : {"StateUpdated"}]
    \cup [type : {"ConfirmationRequested"}, id : NotifIds, payload : Payloads]
    \cup [type : {"ConfirmationExpired"}, id : NotifIds]

\* The operations that send a request carrying a fresh confirmation id.
GatedOps == {"sendOperations", "sign"}

\* The facade operations that send one request built from their arguments
\* alone (passwords, names, keys and settings are forwarded as given).
PlainOps ==
    {"fetchState", "registerWallet", "unlock", "lock", "createAccount",
     "revealPrivateKey", "revealMnemonic", "removeAccount", "editAccountName",
     "importAccount", "importMnemonicAccount", "importFundraiserAccount",
     "updateSettings"}

\* The operations that send a request and await its reply.
RequestOps ==
    PlainOps \cup {"confirmInternal", "getDAppPayload", "confirmDAppPermission",
                   "confirmDAppOperation", "getPublicKey", "sendOperations",
                   "sign"}

\* The request type each operation sends (confirmDAppPermission: the request
\* of its own, sent after the one of getPublicKey).
RequestType(op) ==
    CASE op = "fetchState" -> "GetStateRequest"
      [] op = "registerWallet" -> "NewWalletRequest"
      [] op = "unlock" -> "UnlockRequest"
      [] op = "lock" -> "LockRequest"
      [] op = "createAccount" -> "CreateAccountRequest"
      [] op = "revealPrivateKey" -> "RevealPrivateKeyRequest"
      [] op = "revealMnemonic" -> "RevealMnemonicRequest"
      [] op = "removeAccount" -> "RemoveAccountRequest"
      [] op = "editAccountName" -> "EditAccountRequest"
      [] op = "importAccount" -> "ImportAccountRequest"
      [] op = "importMnemonicAccount" -> "ImportMnemonicAccountRequest"
      [] op = "importFundraiserAccount" -> "ImportFundraiserAccountRequest"
      [] op = "updateSettings" -> "UpdateSettingsRequest"
      [] op = "confirmInternal" -> "ConfirmationRequest"
      [] op = "getDAppPayload" -> "DAppGetPayloadRequest"
      [] op = "confirmDAppPermission" -> "DAppPermConfirmationRequest"
      [] op = "confirmDAppOperation" -> "DAppOpsConfirmationRequest"
      [] op = "getPublicKey" -> "RevealPublicKeyRequest"
      [] op = "sendOperations" -> "OperationsRequest"
      [] op = "sign" -> "SignRequest"

\* The response type each operation asserts on after that request.
ExpectedType(op) ==
    CASE op = "fetchState" -> "GetStateResponse"
      [] op = "registerWallet" -> "NewWalletResponse"
      [] op = "unlock" -> "UnlockResponse"
      [] op = "lock" -> "LockResponse"
      [] op = "createAccount" -> "CreateAccountResponse"
      [] op = "revealPrivateKey" -> "RevealPrivateKeyResponse"
      [] op = "revealMnemonic" -> "RevealMnemonicResponse"
      [] op = "removeAccount" -> "RemoveAccountResponse"
      [] op = "editAccountName" -> "EditAccountResponse"
      [] op = "importAccount" -> "ImportAccountResponse"
      [] op = "importMnemonicAccount" -> "ImportMnemonicAccountResponse"
      [] op = "importFundraiserAccount" -> "ImportFundraiserAccountResponse"
      [] op = "updateSettings" -> "UpdateSettingsResponse"
      [] op = "confirmInternal" -> "ConfirmationResponse"
      [] op = "getDAppPayload" -> "DAppGetPayloadResponse"
      [] op = "confirmDAppPermission" -> "DAppPermConfirmationResponse"
      [] op = "confirmDAppOperation" -> "DAppOpsConfirmationResponse"
      [] op = "getPublicKey" -> "RevealPublicKeyResponse"
      [] op = "sendOperations" -> "OperationsResponse"
      [] op = "sign" -> "SignResponse"

\* Whether an operation returns a field of its response (res.state,
\* res.privateKey, res.mnemonic, res.payload, res.publicKey, res.opHash,
\* res.result).
ReturnsValue(op) ==
    op \in {"fetchState", "revealPrivateKey", "revealMnemonic", "getDAppPayload",
            "getPublicKey", "sendOperations", "sign"}

\* The values that field can hold.
ReplyBodies(op) ==
    IF op = "getDAppPayload" THEN Payloads
    ELSE IF ReturnsValue(op) THEN Results
    ELSE {"r1"}

\* A response type other than the one the operation asserts on.
OtherType(op) == IF op = "sign" THEN "OperationsResponse" ELSE "SignResponse"

\* What intercom.request can settle with, for a request of operation op: a
\* response of the matching type, a response of another type, an object
\* without a type field, or a rejection carrying the authority's error.
Replies(op) ==
    [kind : {"response"}, type : {ExpectedType(op)},
     body : ReplyBodies(op),
     opResults : IF op = "sendOperations" THEN OpResults ELSE {""}]
    \cup [kind : {"response"}, type : {OtherType(op)}, body : {"r1"},
          opResults : {""}]
    \cup [kind : {"untyped"}, type : {""}, body : {"r1"}, opResults : {""}]
    \cup [kind : {"rejected"}, type : {""}, body : AuthorityErrors,
          opResults : {""}]

\* Every reply the channel can settle a request with.
AllReplies == UNION {Replies(op) : op \in RequestOps}

\* No reply: the call ended without a request of its own settling.
NoReply == [kind |-> "none", type |-> "", body |-> "", opResults |-> ""]

\* nanoid(): an id no earlier call of the session was given.
nanoid == Len(calls) + 1

\* A call that has handed its request to the channel and is suspended; its pc
\* becomes "returned" or "failed" when it ends.
NewCall(op, id) == [op |-> op, id |-> id, pc |-> "awaiting"]

\* The operation whose request a suspended call waits on: a
\* confirmDAppPermission at pc "awaitingKey" waits on its getPublicKey.
Awaited(c) == IF c.pc = "awaitingKey" THEN "getPublicKey" ELSE c.op

\* The confirmation page before it is entered.
ClosedPage ==
    [pc |-> "closed", search |-> "", id |-> Null, payload |-> Null,
     accountPkhToConnect |-> "", error |-> Null, confirming |-> FALSE,
     declining |-> FALSE, fatal |-> Null, call |-> 0, delayed |-> Null,
     renders |-> <<>>]

Init ==
    /\ page = ClosedPage
    /\ confirmationIdRef = Null
    /\ confirmation = Null
    /\ data = InitialState
    /\ calls = <<>>
    /\ sent = <<>>
    /\ expiredIds = {}
    /\ lastMsg = Null
    /\ settled = Null

(***************************************************************************)
(* The confirmation state and the notification handler.                    *)
(***************************************************************************)

\* A state that collects the confirmations it is given.
setConfirmation_Append(v) == confirmation' = confirmation \o v

\* setConfirmation(v): the React state setter.
setConfirmation(v) == confirmation' = v

\* resetConfirmation with the assignment to the ref left out.
resetConfirmation_KeepRef ==
    /\ confirmationIdRef' = confirmationIdRef
    /\ setConfirmation(Null)

\* resetConfirmation with the state setter left out.
resetConfirmation_KeepState ==
    /\ confirmationIdRef' = Null
    /\ confirmation' = confirmation

\* resetConfirmation: clears the tracked id and the pending confirmation.
resetConfirmation ==
    /\ confirmationIdRef' = Null
    /\ setConfirmation(Null)

\* request(req) up to its await: the request is handed to intercom.request
\* and the call that made it is suspended.
request(op, id, confirmed) ==
    /\ sent' = Append(sent, [type |-> RequestType(op), id |-> id,
                             confirmed |-> confirmed, call |-> Len(calls) + 1])
    /\ calls' = Append(calls, NewCall(op, id))

\* fetchState up to its await.
fetchState == request("fetchState", 0, FALSE)

\* revalidate(): SWR runs the fetcher of key "state".
revalidate == fetchState

\* case ConfirmationRequested, with the comparison to the ref left out.
OnConfirmationRequested_NoCheck(msg) ==
    /\ setConfirmation(Some([id |-> msg.id, payload |-> msg.payload]))
    /\ UNCHANGED <<confirmationIdRef, expiredIds>>

\* case ConfirmationRequested of the subscription handler.
OnConfirmationRequested(msg) ==
    /\ IF Some(msg.id) = confirmationIdRef
         THEN setConfirmation(Some([id |-> msg.id, payload |-> msg.payload]))
         ELSE UNCHANGED confirmation
    /\ UNCHANGED <<confirmationIdRef, expiredIds>>

\* case ConfirmationExpired, with the comparison to the ref left out.
OnConfirmationExpired_NoCheck(msg) ==
    /\ resetConfirmation
    /\ expiredIds' = IF Some(msg.id) = confirmationIdRef
                       THEN expiredIds \cup {msg.id} ELSE expiredIds

\* case ConfirmationExpired of the subscription handler.
OnConfirmationExpired(msg) ==
    IF Some(msg.id) = confirmationIdRef
      THEN /\ resetConfirmation
           /\ expiredIds' = expiredIds \cup {msg.id}
      ELSE UNCHANGED <<confirmationIdRef, confirmation, expiredIds>>

\* A handler that does not react to StateUpdated.
Notify_NoRevalidate(msg) ==
    /\ CASE msg.type = "StateUpdated" ->
              /\ Len(calls) < MaxCalls
              /\ UNCHANGED <<calls, sent, confirmationIdRef, confirmation,
                             expiredIds>>
         [] msg.type = "ConfirmationRequested" ->
              /\ OnConfirmationRequested(msg)
              /\ UNCHANGED <<calls, sent>>
         [] msg.type = "ConfirmationExpired" ->
              /\ OnConfirmationExpired(msg)
              /\ UNCHANGED <<calls, sent>>
    /\ lastMsg' = Some(msg)
    /\ settled' = Null
    /\ UNCHANGED data
    /\ UNCHANGED page

\* The handler given to intercom.subscribe, run on one notification.
Notify(msg) ==
    /\ CASE msg.type = "StateUpdated" ->
              /\ Len(calls) < MaxCalls
              /\ revalidate
              /\ UNCHANGED <<confirmationIdRef, confirmation, expiredIds>>
         [] msg.type = "ConfirmationRequested" ->
              /\ OnConfirmationRequested(msg)
              /\ UNCHANGED <<calls, sent>>
         [] msg.type = "ConfirmationExpired" ->
              /\ OnConfirmationExpired(msg)
              /\ UNCHANGED <<calls, sent>>
    /\ lastMsg' = Some(msg)
    /\ settled' = Null
    /\ UNCHANGED data
    /\ UNCHANGED page

\* A reset that only acts once a confirmation has been surfaced.
ResetConfirmation_IfPending ==
    /\ IF confirmation # Null
         THEN resetConfirmation
         ELSE UNCHANGED <<confirmationIdRef, confirmation>>
    /\ lastMsg' = Null
    /\ settled' = Null
    /\ UNCHANGED <<data, calls, sent, expiredIds>>
    /\ UNCHANGED page

\* The UI calls resetConfirmation (the flow is abandoned or closed).
ResetConfirmation ==
    /\ resetConfirmation
    /\ lastMsg' = Null
    /\ settled' = Null
    /\ UNCHANGED <<data, calls, sent, expiredIds>>
    /\ UNCHANGED page

(***************************************************************************)
(* The adapters made by createTaquitoWallet and createTaquitoSigner.       *)
(***************************************************************************)

\* A hook that does not record the id.
onBeforeSend_Skip(id) == confirmationIdRef' = confirmationIdRef

\* A hook that records the id only while no other id is tracked.
onBeforeSend_IfFree(id) ==
    confirmationIdRef' = IF confirmationIdRef = Null THEN Some(id)
                         ELSE confirmationIdRef

\* onBeforeSend / onBeforeSign as createTaquitoWallet and
\* createTaquitoSigner pass them: the id goes into the ref.
onBeforeSend(id) == confirmationIdRef' = Some(id)

\* TaquitoWallet.sendOperations up to its await, on a wallet made with
\* (cb) or without an onAfterSend callback.
sendOperations(cb) ==
    /\ Len(calls) < MaxCalls
    /\ LET id == nanoid IN
         /\ onBeforeSend(id)
         /\ sent' = Append(sent, [type |-> RequestType("sendOperations"),
                                  id |-> id, confirmed |-> FALSE,
                                  call |-> Len(calls) + 1])
         /\ calls' = Append(calls, [op |-> "sendOperations", id |-> id,
                                    pc |-> "awaiting", cb |-> cb])
    /\ lastMsg' = Null
    /\ settled' = Null
    /\ UNCHANGED <<confirmation, data, expiredIds>>
    /\ UNCHANGED page

\* ThanosSigner.sign up to its await.
sign ==
    /\ Len(calls) < MaxCalls
    /\ LET id == nanoid IN
         /\ onBeforeSend(id)
         /\ request("sign", id, FALSE)
    /\ lastMsg' = Null
    /\ settled' = Null
    /\ UNCHANGED <<confirmation, data, expiredIds>>
    /\ UNCHANGED page

\* A secretKey that asks the authority for the key and returns it.
secretKey_Reveal ==
    /\ Len(calls) < MaxCalls
    /\ sent' = Append(sent, [type |-> "RevealPrivateKeyRequest", id |-> 0,
                             confirmed |-> FALSE, call |-> Len(calls) + 1])
    /\ calls' = Append(calls, [op |-> "secretKey", id |-> 0, pc |-> "returned"])
    /\ lastMsg' = Null
    /\ settled' = Some([call |-> Len(calls) + 1, res |-> NoReply, value |-> "r1",
                        afterSend |-> Null])
    /\ UNCHANGED <<confirmationIdRef, confirmation, data, expiredIds>>
    /\ UNCHANGED page

\* ThanosSigner.secretKey: throws, the returned promise is rejected.
secretKey ==
    /\ Len(calls) < MaxCalls
    /\ calls' = Append(calls, [op |-> "secretKey", id |-> 0, pc |-> "failed"])
    /\ lastMsg' = Null
    /\ settled' = Some([call |-> Len(calls) + 1, res |-> NoReply,
                        value |-> SecretKeyError, afterSend |-> Null])
    /\ UNCHANGED <<confirmationIdRef, confirmation, data, sent, expiredIds>>
    /\ UNCHANGED page

(***************************************************************************)
(* Facade operations.                                                      *)
(***************************************************************************)

\* The ids the UI passes to confirmInternal: the id of the confirmation it
\* shows (context value `confirmation`).
DecisionIds == {confirmation[k].id : k \in DOMAIN confirmation}

\* confirmInternal(id, confirmed) up to its await.
confirmInternal(id, confirmed) ==
    /\ Len(calls) < MaxCalls
    /\ request("confirmInternal", id, confirmed)
    /\ lastMsg' = Null
    /\ settled' = Null
    /\ UNCHANGED <<confirmationIdRef, confirmation, data, expiredIds>>
    /\ UNCHANGED page

\* getPublicKey(accountPublicKeyHash) up to its await, within call i: the
\* RevealPublicKeyRequest goes to the channel.
getPublicKey(accountPublicKeyHash, i) ==
    sent' = Append(sent, [type |-> RequestType("getPublicKey"), id |-> 0,
                          confirmed |-> FALSE, call |-> i,
                          accountPublicKeyHash |-> accountPublicKeyHash])

\* ThanosSigner.publicKey up to its await, on a signer made for pkh.
publicKey(pkh) ==
    /\ getPublicKey(pkh, Len(calls) + 1)
    /\ calls' = Append(calls, NewCall("getPublicKey", 0))

\* getDAppPayload(id) up to its await.
getDAppPayload(id) == request("getDAppPayload", id, FALSE)

\* confirmDAppOperation(id, confirmed) up to its await.
confirmDAppOperation(id, confirmed) ==
    request("confirmDAppOperation", id, confirmed)

\* A confirmDAppPermission that looks the key up only for an approval and
\* forwards a decline at once.
confirmDAppPermission_KeyOnApproval(id, confirmed, pkh) ==
    IF confirmed
      THEN /\ getPublicKey(pkh, Len(calls) + 1)
           /\ calls' = Append(calls, [op |-> "confirmDAppPermission", id |-> id,
                                      pc |-> "awaitingKey",
                                      confirmed |-> confirmed, pkh |-> pkh])
      ELSE /\ sent' = Append(sent, [type |-> RequestType("confirmDAppPermission"),
                                    id |-> id, confirmed |-> confirmed,
                                    call |-> Len(calls) + 1,
                                    accountPublicKeyHash |-> pkh,
                                    accountPublicKey |-> "undefined"])
           /\ calls' = Append(calls, [op |-> "confirmDAppPermission", id |-> id,
                                      pc |-> "awaiting",
                                      confirmed |-> confirmed, pkh |-> pkh])

\* confirmDAppPermission(id, confirmed, pkh) up to its first await, the one
\* of getPublicKey(pkh) inside the object literal of its request: only the
\* RevealPublicKeyRequest has been sent.
confirmDAppPermission(id, confirmed, pkh) ==
    /\ getPublicKey(pkh, Len(calls) + 1)
    /\ calls' = Append(calls, [op |-> "confirmDAppPermission", id |-> id,
                               pc |-> "awaitingKey", confirmed |-> confirmed,
                               pkh |-> pkh])

\* The UI (or Taquito) makes a call: body is the call up to its first await.
Call(body) ==
    /\ Len(calls) < MaxFacadeCalls
    /\ body
    /\ lastMsg' = Null
    /\ settled' = Null
    /\ UNCHANGED <<confirmationIdRef, confirmation, data, expiredIds>>
    /\ UNCHANGED page

(***************************************************************************)
(* The channel settles a request and the suspended call resumes.  The      *)
(* continuation of an await runs as a microtask of the task that settled   *)
(* the promise, before any other notification or reply is handled, so the  *)
(* two are one step.                                                       *)
(***************************************************************************)

\* An assertResponse that never throws.
assertResponse_Lax(condition) == TRUE

\* assertResponse(condition): TRUE when it does not throw.
assertResponse(condition) == condition

\* request(req) after its await: TRUE when the reply is handed on as a
\* ThanosResponse ("type" in res).
requestReturns(r) == r.kind # "rejected" /\ assertResponse(r.kind # "untyped")

\* A call that returns another value than the reply's.
ReturnValue_Other(op, res) ==
    IF ~ ReturnsValue(op) THEN "undefined"
    ELSE IF res.body = "r1" THEN "r2" ELSE "r1"

\* The value a call returns after its assertions passed: res.state,
\* res.opHash, res.result, or nothing.
ReturnValue(op, res) ==
    IF ReturnsValue(op) THEN res.body ELSE "undefined"

\* A request that reports every failure as an invalid response.
Outcome_Masked(op, r) ==
    IF ~ (requestReturns(r) /\ assertResponse(r.type = ExpectedType(op)))
      THEN [pc |-> "failed", value |-> InvalidResponse]
    ELSE [pc |-> "returned", value |-> ReturnValue(op, r)]

\* How a suspended call of operation op ends when its request settles with r:
\* the error of a rejected request propagates, a failed assertResponse throws
\* InvalidResponse, otherwise the call returns.
Outcome(op, r) ==
    IF r.kind = "rejected"
      THEN [pc |-> "failed", value |-> r.body]
    ELSE IF ~ (requestReturns(r) /\ assertResponse(r.type = ExpectedType(op)))
      THEN [pc |-> "failed", value |-> InvalidResponse]
    ELSE [pc |-> "returned", value |-> ReturnValue(op, r)]

\* A sendOperations that invokes the callback before it looks at the reply.
onAfterSend_Unchecked(c, r, out) ==
    IF c.op = "sendOperations" /\ r.kind # "rejected" /\ c.cb
      THEN Some([opHash |-> r.body, opResults |-> r.opResults])
      ELSE Null

\* The invocation of this.opts.onAfterSend a call c makes when its request
\* settles with r and its assertions end as out: sendOperations that got past
\* its assertResponse, on a wallet that has the callback, calls it with
\* res.opHash and res.opResults; Null when nothing is invoked.
onAfterSend(c, r, out) ==
    IF c.op = "sendOperations" /\ out.pc = "returned" /\ c.cb
      THEN Some([opHash |-> r.body, opResults |-> r.opResults])
      ELSE Null

\* The value SWR holds for key "state" after call c ended as out: what the
\* fetcher returned when c is a fetchState that succeeded, the value it held
\* otherwise (a failed fetch keeps the stale state).
swrData(c, out) ==
    IF c.op = "fetchState" /\ out.pc = "returned" THEN out.value ELSE data

(***************************************************************************)
(* The confirmation page (ConfirmDAppForm), shown once the wallet is ready. *)
(***************************************************************************)

\* A first render that fetches the payload whatever the id is.
Mount_NoCheck(search, pkh) ==
    /\ page.pc = "closed"
    /\ LET id == QueryId(search) IN
         /\ getDAppPayload(IF id = Null THEN "" ELSE id[1])
         /\ page' = [page EXCEPT !.pc = "loading", !.search = search,
                                 !.accountPkhToConnect = pkh, !.id = id,
                                 !.call = Len(calls) + 1]
    /\ lastMsg' = Null
    /\ settled' = Null
    /\ UNCHANGED <<confirmationIdRef, confirmation, data, expiredIds>>

\* The first render of ConfirmDAppForm at location search, pkh being the
\* current account: without an id the render throws NotIdentified and the
\* form is never shown; with one, SWR calls getDAppPayload(id) and the
\* render suspends.
Mount(search, pkh) ==
    /\ page.pc = "closed"
    /\ LET id == QueryId(search) IN
         IF id = Null \/ id = Some("")
           THEN /\ page' = [page EXCEPT !.pc = "error", !.search = search,
                                        !.accountPkhToConnect = pkh,
                                        !.fatal = Some(NotIdentified)]
                /\ UNCHANGED <<calls, sent>>
           ELSE /\ getDAppPayload(id[1])
                /\ page' = [page EXCEPT !.pc = "loading", !.search = search,
                                        !.accountPkhToConnect = pkh, !.id = id,
                                        !.call = Len(calls) + 1]
    /\ lastMsg' = Null
    /\ settled' = Null
    /\ UNCHANGED <<confirmationIdRef, confirmation, data, expiredIds>>

\* handleAccountClick: setAccountPkhToConnect, on the form of a connect
\* payload.
handleAccountClick(pkh) ==
    /\ page.pc = "ready"
    /\ page.payload = Some("connect")
    /\ page' = [page EXCEPT !.accountPkhToConnect = pkh]
    /\ lastMsg' = Null
    /\ settled' = Null
    /\ UNCHANGED <<confirmationIdRef, confirmation, data, calls, sent, expiredIds>>

\* An onConfirm with the two cases exchanged.
onConfirm_Swapped(confimed) ==
    CASE page.payload = Some("confirm_operations") ->
           confirmDAppPermission(page.id[1], confimed, page.accountPkhToConnect)
      [] page.payload = Some("connect") ->
           confirmDAppOperation(page.id[1], confimed)

\* onConfirm(confimed) up to its await: the decision operation that matches
\* the kind of the payload.
onConfirm(confimed) ==
    CASE page.payload = Some("connect") ->
           confirmDAppPermission(page.id[1], confimed, page.accountPkhToConnect)
      [] page.payload = Some("confirm_operations") ->
           confirmDAppOperation(page.id[1], confimed)

\* Click handlers without the check of the flags.
handleClick_NoGuard(confirmed) ==
    /\ page.pc = "ready"
    /\ Len(calls) < MaxPageCalls
    /\ onConfirm(confirmed)
    /\ page' = [page EXCEPT !.confirming = confirmed \/ page.confirming,
                            !.declining = ~ confirmed \/ page.declining,
                            !.error = Null,
                            !.renders = <<>>,
                            !.call = Len(calls) + 1]
    /\ lastMsg' = Null
    /\ settled' = Null
    /\ UNCHANGED <<confirmationIdRef, confirmation, data, expiredIds>>

\* handleConfirmClick (confirmed) and handleDeclineClick (not confirmed) up
\* to the await inside confirm: nothing happens while an attempt is in
\* progress; otherwise the flag is set, the error cleared and the decision
\* sent.
handleClick(confirmed) ==
    /\ page.pc = "ready"
    /\ IF page.confirming \/ page.declining
         THEN UNCHANGED <<page, calls, sent>>
         ELSE /\ Len(calls) < MaxPageCalls
              /\ onConfirm(confirmed)
              /\ page' = [page EXCEPT !.confirming = confirmed,
                                      !.declining = ~ confirmed,
                                      !.error = Null,
                                      !.renders = <<>>,
                                      !.call = Len(calls) + 1]
    /\ lastMsg' = Null
    /\ settled' = Null
    /\ UNCHANGED <<confirmationIdRef, confirmation, data, expiredIds>>

\* What the form shows of an attempt in one render.
Render(p) ==
    [error |-> p.error, confirming |-> p.confirming, declining |-> p.declining]

\* A timer task that clears the flag before it shows the error.
HumanDelay_FlagFirst ==
    /\ page.delayed # Null
    /\ LET p1 == [page EXCEPT !.confirming = FALSE, !.declining = FALSE]
           p2 == [p1 EXCEPT !.error = page.delayed, !.delayed = Null]
       IN page' = [p2 EXCEPT !.renders = <<Render(p1), Render(p2)>>]
    /\ lastMsg' = Null
    /\ settled' = Null
    /\ UNCHANGED <<confirmationIdRef, confirmation, data, calls, sent, expiredIds>>

\* The 300 ms timer of confirm's catch fires, and its task runs to the end:
\* setError(err), then confirm returns to the click handler, which calls
\* setConfirming(false) / setDeclining(false).  Both setters are called
\* outside a React event handler, so the form renders after each; no other
\* handler runs between the two.
HumanDelay ==
    /\ page.delayed # Null
    /\ LET p1 == [page EXCEPT !.error = page.delayed, !.delayed = Null]
           p2 == [p1 EXCEPT !.confirming = FALSE, !.declining = FALSE]
       IN page' = [p2 EXCEPT !.renders = <<Render(p1), Render(p2)>>]
    /\ lastMsg' = Null
    /\ settled' = Null
    /\ UNCHANGED <<confirmationIdRef, confirmation, data, calls, sent, expiredIds>>

\* The page after the request of call i settled with r.  The payload fetch
\* of the page ends: the form renders with the payload, or the error goes to
\* the error boundary.  The decision of the page ends: on success the click
\* handler clears its flag, on failure confirm waits for its timer.  Any
\* other call, or a decision that goes on to its second request, leaves the
\* page as it is.
PageAfter(i, r) ==
    LET c == calls[i]
        out == Outcome(Awaited(c), r)
    IN IF page.call # i \/ (c.pc = "awaitingKey" /\ out.pc = "returned")
         THEN page
       ELSE IF page.pc = "loading"
         THEN IF out.pc = "returned"
                THEN [page EXCEPT !.pc = "ready", !.payload = Some(out.value),
                                  !.call = 0]
                ELSE [page EXCEPT !.pc = "error", !.fatal = Some(out.value),
                                  !.call = 0]
       ELSE IF out.pc = "returned"
         THEN [page EXCEPT !.confirming = FALSE, !.declining = FALSE, !.call = 0]
       ELSE [page EXCEPT !.delayed = Some(out.value), !.call = 0]

\* A confirmDAppPermission that sends its decision as soon as it is called
\* and does not use the reply to getPublicKey.
Resume_KeyNotAwaited(i, r) ==
    LET c == calls[i]
        out == Outcome(Awaited(c), r)
    IN /\ IF c.pc = "awaitingKey"
            THEN /\ sent' = Append(sent, [type |-> RequestType(c.op), id |-> c.id,
                                          confirmed |-> c.confirmed, call |-> i,
                                          accountPublicKeyHash |-> c.pkh,
                                          accountPublicKey |-> "undefined"])
                 /\ calls' = [calls EXCEPT ![i].pc = "awaiting"]
            ELSE /\ sent' = sent
                 /\ calls' = [calls EXCEPT ![i].pc = out.pc]
       /\ data' = swrData(c, out)
       /\ settled' = Some([call |-> i, res |-> r, value |-> out.value,
                           afterSend |-> onAfterSend(c, r, out)])

\* Call i after the await its request r settles: the awaited operation ends
\* as Outcome says; a confirmDAppPermission whose getPublicKey returned goes
\* on to send its DAppPermConfirmationRequest, carrying the key, and is
\* suspended again; every other call ends.
Resume(i, r) ==
    LET c == calls[i]
        out == Outcome(Awaited(c), r)
    IN /\ IF c.pc = "awaitingKey" /\ out.pc = "returned"
            THEN /\ sent' = Append(sent, [type |-> RequestType(c.op), id |-> c.id,
                                          confirmed |-> c.confirmed, call |-> i,
                                          accountPublicKeyHash |-> c.pkh,
                                          accountPublicKey |-> out.value])
                 /\ calls' = [calls EXCEPT ![i].pc = "awaiting"]
            ELSE /\ sent' = sent
                 /\ calls' = [calls EXCEPT ![i].pc = out.pc]
       /\ data' = swrData(c, out)
       /\ settled' = Some([call |-> i, res |-> r, value |-> out.value,
                           afterSend |-> onAfterSend(c, r, out)])

\* A call that resets the confirmation once its request has settled.
Reply_Clearing(i, r) ==
    /\ calls[i].pc \in {"awaiting", "awaitingKey"}
    /\ r \in Replies(Awaited(calls[i]))
    /\ Resume(i, r)
    /\ page' = PageAfter(i, r)
    /\ lastMsg' = Null
    /\ IF calls[i].op \in GatedOps
         THEN resetConfirmation
         ELSE UNCHANGED <<confirmationIdRef, confirmation>>
    /\ UNCHANGED expiredIds

\* intercom.request settles for call i with r, and the call runs on to its
\* next await or to its end.
Reply(i, r) ==
    /\ calls[i].pc \in {"awaiting", "awaitingKey"}
    /\ r \in Replies(Awaited(calls[i]))
    /\ Resume(i, r)
    /\ page' = PageAfter(i, r)
    /\ lastMsg' = Null
    /\ UNCHANGED <<confirmationIdRef, confirmation, expiredIds>>

Next ==
    \/ \E msg \in Notifications : Notify(msg)
    \/ ResetConfirmation
    \/ sendOperations(TRUE)
    \/ sign
    \/ secretKey
    \/ \E id \in DecisionIds, confirmed \in BOOLEAN : confirmInternal(id, confirmed)
    \/ \E i \in DOMAIN calls :
          /\ calls[i].pc \in {"awaiting", "awaitingKey"}
          /\ \E r \in Replies(Awaited(calls[i])) : Reply(i, r)

Spec == Init /\ [][Next]_vars

\* The facade and the adapters alone: one call of any operation, with any
\* reply, no notification.
FacadeNext ==
    \/ \E op \in PlainOps : Call(request(op, 0, FALSE))
    \/ \E id \in 1 .. MaxFacadeCalls, confirmed \in BOOLEAN :
          Call(request("confirmInternal", id, confirmed))
    \/ \E id \in DAppIds : Call(getDAppPayload(id))
    \/ \E id \in DAppIds, confirmed \in BOOLEAN, pkh \in Pkhs :
          Call(confirmDAppPermission(id, confirmed, pkh))
    \/ \E id \in DAppIds, confirmed \in BOOLEAN :
          Call(confirmDAppOperation(id, confirmed))
    \/ \E pkh \in Pkhs : Call(publicKey(pkh))
    \/ \E cb \in BOOLEAN : Len(calls) < MaxFacadeCalls /\ sendOperations(cb)
    \/ Len(calls) < MaxFacadeCalls /\ sign
    \/ \E i \in DOMAIN calls :
          /\ calls[i].pc \in {"awaiting", "awaitingKey"}
          /\ \E r \in Replies(Awaited(calls[i])) : Reply(i, r)

FacadeSpec == Init /\ [][FacadeNext]_vars

\* The confirmation page alone: it is entered at some location, fetches its
\* payload and sends the decisions the user clicks.
PageNext ==
    \/ \E search \in Searches, pkh \in Pkhs : Mount(search, pkh)
    \/ \E pkh \in Pkhs : handleAccountClick(pkh)
    \/ \E confirmed \in BOOLEAN : handleClick(confirmed)
    \/ HumanDelay
    \/ \E i \in DOMAIN calls :
          /\ calls[i].pc \in {"awaiting", "awaitingKey"}
          /\ \E r \in Replies(Awaited(calls[i])) : Reply(i, r)

PageSpec == Init /\ [][PageNext]_vars

TypeOK ==
    /\ confirmationIdRef \in {Null} \cup {Some(i) : i \in NotifIds}
    /\ Len(calls) <= MaxCalls

(***************************************************************************)
(* Properties of the confirmation tracking.                                *)
(***************************************************************************)

\* The notification a step delivers, when it delivers one of the given type.
Delivers(type) == lastMsg' # Null /\ lastMsg'[1].type = type

\* C1: a delivered ConfirmationRequested{id, payload} becomes the pending
\* confirmation exactly when id equals the tracked id at delivery; then the
\* pending confirmation is exactly {id, payload}, otherwise it stays as it was.
C1_SurfacedIffTracked ==
    [][Delivers("ConfirmationRequested") =>
          LET msg == lastMsg'[1] IN
            IF confirmationIdRef = Some(msg.id)
              THEN confirmation' = Some([id |-> msg.id, payload |-> msg.payload])
              ELSE confirmation' = confirmation]_vars

\* A ConfirmationRequested for the tracked id has just been surfaced.
C1_Witness ==
    /\ lastMsg # Null
    /\ lastMsg[1].type = "ConfirmationRequested"
    /\ confirmationIdRef = Some(lastMsg[1].id)
    /\ confirmation = Some([id |-> lastMsg[1].id, payload |-> lastMsg[1].payload])

\* C2: a ConfirmationRequested or ConfirmationExpired whose id is not the
\* tracked id (also when nothing is tracked) changes neither the tracked id
\* nor the pending confirmation, and sends no request.
C2_ForeignIgnored ==
    [][((Delivers("ConfirmationRequested") \/ Delivers("ConfirmationExpired"))
          /\ confirmationIdRef # Some(lastMsg'[1].id)) =>
              UNCHANGED <<confirmationIdRef, confirmation, sent, calls, data>>]_vars

\* The foreign id 0 has just been delivered while another id is tracked and
\* nothing is pending.
C2_Witness ==
    /\ lastMsg # Null
    /\ lastMsg[1].type = "ConfirmationRequested"
    /\ lastMsg[1].id = 0
    /\ confirmationIdRef # Null
    /\ confirmation = Null

\* C3: a ConfirmationExpired for the tracked id leaves the tracked id and the
\* pending confirmation null, whether or not a payload had been surfaced.
C3_ExpiryResets ==
    [][(Delivers("ConfirmationExpired")
          /\ confirmationIdRef = Some(lastMsg'[1].id)) =>
              (confirmationIdRef' = Null /\ confirmation' = Null)]_vars

\* A ConfirmationExpired for the tracked id has just been handled.
C3_Witness ==
    /\ lastMsg # Null
    /\ lastMsg[1].type = "ConfirmationExpired"
    /\ lastMsg[1].id \in expiredIds
    /\ confirmationIdRef = Null
    /\ confirmation = Null

\* C4: expiry wins: the pending confirmation never carries an id whose
\* ConfirmationExpired has been processed, whatever is delivered later.
C4_ExpiryWins ==
    \A k \in DOMAIN confirmation : confirmation[k].id \notin expiredIds

\* A stale ConfirmationRequested for an expired id has just been delivered,
\* and nothing is pending.
C4_Witness ==
    /\ lastMsg # Null
    /\ lastMsg[1].type = "ConfirmationRequested"
    /\ lastMsg[1].id \in expiredIds
    /\ confirmation = Null

\* C5: write-before-send: whenever an OperationsRequest or a SignRequest is
\* handed to the channel, the id it carries is the tracked id.
C5_WriteBeforeSend ==
    [][\A k \in DOMAIN sent' :
          (k > Len(sent) /\ sent'[k].type \in {"OperationsRequest", "SignRequest"}) =>
              confirmationIdRef' = Some(sent'[k].id)]_vars

\* A ConfirmationRequested delivered before the reply of the request that
\* carries its id has found the id recorded.
C5_Witness ==
    \E k \in DOMAIN sent :
        /\ sent[k].type \in {"OperationsRequest", "SignRequest"}
        /\ calls[sent[k].call].pc = "awaiting"
        /\ confirmation # Null
        /\ confirmation[1].id = sent[k].id

(***************************************************************************)
(* Properties of the adapter calls and of the decision.                    *)
(***************************************************************************)

\* The call a step has just started, when it started one.
Started(op) ==
    /\ Len(calls') = Len(calls) + 1
    /\ calls'[Len(calls')].op = op

\* C6: once a sign or sendOperations call has returned the authority's
\* reply, its id is no longer the tracked id.
C6_ClearedOnResolution ==
    \A i \in DOMAIN calls :
        (calls[i].op \in GatedOps /\ calls[i].pc = "returned") =>
            confirmationIdRef # Some(calls[i].id)

\* C7: a sign or sendOperations call whose confirmation has expired does not
\* stay suspended: the ConfirmationExpired for its tracked id ends the
\* in-flight await with an error.
C7_ExpiryFailsAwait ==
    [][(Delivers("ConfirmationExpired")
          /\ confirmationIdRef = Some(lastMsg'[1].id)) =>
              \A i \in DOMAIN calls :
                  (calls[i].op \in GatedOps /\ calls[i].id = lastMsg'[1].id
                     /\ calls[i].pc = "awaiting") => calls'[i].pc = "failed"]_vars

\* C8: on the approve path sign returns the result of the SignResponse and
\* sendOperations the opHash of the OperationsResponse, whatever its value.
C8_ResultUnchanged ==
    \A k \in DOMAIN settled :
        LET c == calls[settled[k].call]
            res == settled[k].res
        IN (/\ c.op \in GatedOps
            /\ res.kind = "response"
            /\ res.type = ExpectedType(c.op)) =>
               (c.pc = "returned" /\ settled[k].value = res.body)

\* sendOperations has just returned the opHash "r2" of its response, after a
\* sign call returned.
C8_Witness ==
    /\ settled # Null
    /\ calls[settled[1].call].op = "sendOperations"
    /\ calls[settled[1].call].pc = "returned"
    /\ settled[1].res.body = "r2"
    /\ settled[1].value = "r2"
    /\ \E j \in DOMAIN calls : calls[j].op = "sign" /\ calls[j].pc = "returned"

\* C9: secretKey fails whenever it is called: the call ends failed at once
\* with the error of secretKey, never changes afterwards, sends no request and
\* leaves the tracked id and the pending confirmation as they were.
C9_SecretKeyFails ==
    [][/\ Started("secretKey") =>
            /\ calls'[Len(calls')].pc = "failed"
            /\ settled' = Some([call |-> Len(calls'), res |-> NoReply,
                                value |-> SecretKeyError, afterSend |-> Null])
            /\ UNCHANGED <<confirmationIdRef, confirmation, sent>>
       /\ \A i \in DOMAIN calls :
            calls[i].op = "secretKey" => calls'[i] = calls[i]]_vars

\* secretKey has just failed while a confirmation was tracked and pending.
C9_Witness ==
    /\ settled # Null
    /\ calls[settled[1].call].op = "secretKey"
    /\ calls[settled[1].call].pc = "failed"
    /\ confirmationIdRef # Null
    /\ confirmation # Null

\* C10: sending the decision for the pending confirmation resets the session
\* at once: when confirmInternal has handed its ConfirmationRequest to the
\* channel, the tracked id and the pending confirmation are null.
C10_ResetAtDecision ==
    [][Started("confirmInternal") =>
          (confirmationIdRef' = Null /\ confirmation' = Null)]_vars

(***************************************************************************)
(* Properties of the reset and of overlapping calls.                       *)
(***************************************************************************)

\* A step of the UI's resetConfirmation: the only step that neither delivers
\* a notification, nor ends a call, nor starts one.
IsReset == lastMsg' = Null /\ settled' = Null /\ calls' = calls

\* C11: resetConfirmation, called in any state, leaves the tracked id and the
\* pending confirmation null; and a sign or sendOperations call started with
\* the slot released tracks its own id (which C1 then lets be surfaced).
C11_ResetReleases ==
    [][/\ IsReset => (confirmationIdRef' = Null /\ confirmation' = Null)
       /\ (confirmationIdRef = Null /\ confirmation = Null
             /\ (Started("sendOperations") \/ Started("sign"))) =>
               confirmationIdRef' = Some(calls'[Len(calls')].id)]_vars

\* resetConfirmation has just run while a sign or sendOperations call was in
\* flight: the slot is released although no ConfirmationExpired was ever
\* processed, and the session can start another call.
C11_Witness ==
    /\ confirmationIdRef = Null
    /\ confirmation = Null
    /\ expiredIds = {}
    /\ lastMsg = Null /\ settled = Null
    /\ Len(calls) < MaxCalls
    /\ \E i \in DOMAIN calls : calls[i].op \in GatedOps /\ calls[i].pc = "awaiting"

\* C18: a sign or sendOperations call started while an earlier id is tracked
\* is neither queued nor rejected: in the step that starts it the slot takes
\* its own, different id, its request is handed to the channel and it is
\* suspended, the earlier calls staying as they were; and from then on a
\* ConfirmationRequested or ConfirmationExpired for the id of a gated call
\* that a later gated call followed changes neither the slot nor the pending
\* confirmation.
C18_SecondCallOverwrites ==
    [][/\ ((Started("sendOperations") \/ Started("sign"))
             /\ confirmationIdRef # Null) =>
               LET n == Len(calls') IN
                 /\ confirmationIdRef' = Some(calls'[n].id)
                 /\ confirmationIdRef' # confirmationIdRef
                 /\ calls'[n].pc = "awaiting"
                 /\ Len(sent') = Len(sent) + 1
                 /\ sent'[Len(sent')].id = calls'[n].id
                 /\ sent'[Len(sent')].call = n
                 /\ \A i \in DOMAIN calls : calls'[i] = calls[i]
       /\ ((Delivers("ConfirmationRequested") \/ Delivers("ConfirmationExpired"))
             /\ \E i, j \in DOMAIN calls :
                   /\ i < j
                   /\ calls[i].op \in GatedOps /\ calls[j].op \in GatedOps
                   /\ calls[i].id = lastMsg'[1].id) =>
               UNCHANGED <<confirmationIdRef, confirmation>>]_vars

\* Two gated calls are in flight, the slot holds the second one's id, and the
\* ConfirmationRequested of the first has just been dropped.
C18_Witness ==
    /\ Len(calls) = 2
    /\ calls[1].op \in GatedOps /\ calls[1].pc = "awaiting"
    /\ calls[2].op \in GatedOps /\ calls[2].pc = "awaiting"
    /\ confirmationIdRef = Some(calls[2].id)
    /\ lastMsg # Null
    /\ lastMsg[1].type = "ConfirmationRequested"
    /\ lastMsg[1].id = calls[1].id
    /\ confirmation = Null

\* C19: abandoning with resetConfirmation does not cancel the suspended sign
\* or sendOperations request: a suspended gated call ends only in a step in
\* which the channel settles its own request, it then returns or fails as
\* that reply alone decides, and the step leaves the tracked id and the
\* pending confirmation as they were; a reset step sends and ends nothing.
C19_ResetLeavesRequest ==
    [][/\ IsReset => UNCHANGED <<calls, sent>>
       /\ \A i \in DOMAIN calls :
            (calls[i].op \in GatedOps /\ calls[i].pc = "awaiting"
               /\ calls'[i].pc # "awaiting") =>
                 /\ settled' # Null
                 /\ settled'[1].call = i
                 /\ settled'[1].res \in Replies(calls[i].op)
                 /\ calls'[i].pc = Outcome(calls[i].op, settled'[1].res).pc
                 /\ settled'[1].value = Outcome(calls[i].op, settled'[1].res).value
                 /\ UNCHANGED <<confirmationIdRef, confirmation, sent>>]_vars

\* The only call made, a gated one, has just returned the authority's reply
\* after its confirmation was abandoned: the slot is empty although no
\* ConfirmationExpired was ever processed.
C19_Witness ==
    /\ Len(calls) = 1
    /\ calls[1].op \in GatedOps
    /\ calls[1].pc = "returned"
    /\ settled # Null /\ settled[1].call = 1
    /\ settled[1].res.kind = "response"
    /\ confirmationIdRef = Null
    /\ confirmation = Null
    /\ expiredIds = {}

\* C16: the session exposes at most one pending confirmation in every
\* reachable state: a ConfirmationRequested that matched the tracked id is,
\* right after its delivery, the whole pending confirmation, whatever was
\* pending before.
C16_AtMostOnePending ==
    /\ Len(confirmation) <= 1
    /\ \A k \in DOMAIN lastMsg :
         (lastMsg[k].type = "ConfirmationRequested"
            /\ confirmationIdRef = Some(lastMsg[k].id)) =>
              confirmation = Some([id |-> lastMsg[k].id,
                                   payload |-> lastMsg[k].payload])

\* With a decision for the pending confirmation already in flight, a further
\* ConfirmationRequested for the tracked id has just taken its place.
C16_Witness ==
    /\ lastMsg # Null
    /\ lastMsg[1].type = "ConfirmationRequested"
    /\ confirmationIdRef = Some(lastMsg[1].id)
    /\ Len(confirmation) = 1
    /\ confirmation[1].payload = lastMsg[1].payload
    /\ \E i \in DOMAIN calls :
         /\ calls[i].op = "confirmInternal"
         /\ calls[i].id = lastMsg[1].id

(***************************************************************************)
(* Properties of the cached wallet state.                                  *)
(***************************************************************************)

\* C15: every StateUpdated delivered starts a fetchState, whose
\* GetStateRequest goes to the channel in the same step; when that request
\* is answered by a GetStateResponse the cached state becomes the fetched
\* snapshot, and nothing else changes the cached state; a
\* ConfirmationRequested or ConfirmationExpired starts no call and sends no
\* request.
C15_RefetchOnStateUpdated ==
    [][/\ Delivers("StateUpdated") =>
            /\ Started("fetchState")
            /\ Len(sent') = Len(sent) + 1
            /\ sent'[Len(sent')].type = "GetStateRequest"
            /\ sent'[Len(sent')].call = Len(calls')
       /\ (Delivers("ConfirmationRequested") \/ Delivers("ConfirmationExpired")) =>
            UNCHANGED <<calls, sent, data>>
       /\ \A k \in DOMAIN settled' :
            LET c == calls'[settled'[k].call]
                res == settled'[k].res
            IN IF c.op = "fetchState" /\ res.kind = "response"
                  /\ res.type = "GetStateResponse"
                 THEN data' = res.body
                 ELSE data' = data
       /\ settled' = Null => data' = data]_vars

\* The refetch a StateUpdated started has just returned the snapshot "r2",
\* which is now the cached state, after an earlier refetch had cached "r1".
C15_Witness ==
    /\ Len(calls) = 2
    /\ calls[1].op = "fetchState" /\ calls[1].pc = "returned"
    /\ calls[2].op = "fetchState" /\ calls[2].pc = "returned"
    /\ settled # Null
    /\ settled[1].call = 2
    /\ settled[1].res.body = "r2"
    /\ data = "r2"

(***************************************************************************)
(* Properties of the request/reply discipline (FacadeSpec).                *)
(***************************************************************************)

\* The type of the request call i sent last, the one it is suspended on.
LastRequest(i) ==
    LET ks == {k \in DOMAIN sent : sent[k].call = i}
        last == CHOOSE k \in ks : \A m \in ks : m <= k
    IN sent[last].type

\* The single response type that matches a request type.
ResponseOf(type) ==
    ExpectedType(CHOOSE op \in RequestOps : RequestType(op) = type)

\* C12: whenever the reply to the request a call is suspended on is not of
\* the one response type matching that request (another type, or no type at
\* all), the call fails with the protocol error "Invalid response recieved",
\* returns nothing, sends nothing more and leaves the cached state alone, and
\* sendOperations does not invoke onAfterSend.
C12_MismatchIsProtocolError ==
    [][\A k \in DOMAIN settled' :
          LET i == settled'[k].call
              res == settled'[k].res
          IN (res.kind \in {"response", "untyped"}
                /\ res.type # ResponseOf(LastRequest(i))) =>
                  /\ calls'[i].pc = "failed"
                  /\ settled'[k].value = InvalidResponse
                  /\ settled'[k].afterSend = Null
                  /\ sent' = sent
                  /\ data' = data]_vars

\* confirmDAppPermission has just failed with the protocol error because the
\* reply to its DAppPermConfirmationRequest was a SignResponse.
C12_Witness ==
    /\ settled # Null
    /\ calls[settled[1].call].op = "confirmDAppPermission"
    /\ calls[settled[1].call].pc = "failed"
    /\ settled[1].res.kind = "response"
    /\ settled[1].res.type = "SignResponse"
    /\ settled[1].value = InvalidResponse
    /\ \E k \in DOMAIN sent :
         /\ sent[k].call = settled[1].call
         /\ sent[k].type = "DAppPermConfirmationRequest"

\* C13: when the authority rejects a request, the call that made it fails
\* with the authority's own error, unchanged; the error is never replaced by
\* the protocol error "Invalid response recieved".
C13_AuthorityErrorUnchanged ==
    \A k \in DOMAIN settled :
        settled[k].res.kind = "rejected" =>
            /\ calls[settled[k].call].pc = "failed"
            /\ settled[k].value = settled[k].res.body
            /\ settled[k].value \in AuthorityErrors
            /\ settled[k].value # InvalidResponse

\* getPublicKey has just failed with the error the authority rejected its
\* RevealPublicKeyRequest with.
C13_Witness ==
    /\ settled # Null
    /\ calls[settled[1].call].op = "getPublicKey"
    /\ calls[settled[1].call].pc = "failed"
    /\ settled[1].res.kind = "rejected"
    /\ settled[1].value = "Declined"

\* C14: confirmDAppPermission sends its DAppPermConfirmationRequest only in
\* the step in which the RevealPublicKeyRequest it sent before, for the same
\* pkh, is answered by a RevealPublicKeyResponse; the decision carries the
\* call's id, flag and pkh and the public key of that response.
C14_KeyBeforeDecision ==
    [][\A k \in DOMAIN sent' :
          (k > Len(sent) /\ sent'[k].type = "DAppPermConfirmationRequest") =>
             LET i == sent'[k].call IN
               /\ i \in DOMAIN calls
               /\ calls[i].op = "confirmDAppPermission"
               /\ calls[i].pc = "awaitingKey"
               /\ \E j \in DOMAIN sent :
                    /\ sent[j].call = i
                    /\ sent[j].type = "RevealPublicKeyRequest"
                    /\ sent[j].accountPublicKeyHash = sent'[k].accountPublicKeyHash
               /\ settled' # Null
               /\ settled'[1].call = i
               /\ settled'[1].res.kind = "response"
               /\ settled'[1].res.type = "RevealPublicKeyResponse"
               /\ sent'[k].accountPublicKey = settled'[1].res.body
               /\ sent'[k].accountPublicKeyHash = calls[i].pkh
               /\ sent'[k].id = calls[i].id
               /\ sent'[k].confirmed = calls[i].confirmed]_vars

\* An approval for pkh "tz1b" has been forwarded with the key "r2" the
\* authority returned, and confirmDAppPermission has returned.
C14_Witness ==
    /\ Len(sent) = 2
    /\ sent[1].type = "RevealPublicKeyRequest"
    /\ sent[1].accountPublicKeyHash = "tz1b"
    /\ sent[2].type = "DAppPermConfirmationRequest"
    /\ sent[2].confirmed
    /\ sent[2].accountPublicKeyHash = "tz1b"
    /\ sent[2].accountPublicKey = "r2"
    /\ calls[sent[2].call].pc = "returned"

\* C20: sendOperations on a wallet that has onAfterSend invokes it in the
\* step in which its OperationsResponse arrives and the call returns, with
\* the opHash and the opResults of that response; no other step of any call
\* invokes it (a rejected request, a reply of another type, a wallet without
\* the callback); and a call that has ended never resumes, so the callback
\* runs once per successful call.
C20_AfterSendOnce ==
    [][/\ \A k \in DOMAIN settled' :
            LET c == calls'[settled'[k].call]
                res == settled'[k].res
            IN IF /\ c.op = "sendOperations"
                  /\ c.cb
                  /\ res.kind = "response"
                  /\ res.type = "OperationsResponse"
                 THEN /\ settled'[k].afterSend =
                           Some([opHash |-> res.body, opResults |-> res.opResults])
                      /\ c.pc = "returned"
                      /\ settled'[k].value = res.body
                 ELSE settled'[k].afterSend = Null
       /\ \A i \in DOMAIN calls :
            calls[i].pc \in {"returned", "failed"} =>
               /\ calls'[i] = calls[i]
               /\ \A k \in DOMAIN settled' : settled'[k].call # i]_vars

\* sendOperations has just returned "r2" after calling onAfterSend with the
\* opHash "r2" and the opResults of its response.
C20_Witness ==
    /\ settled # Null
    /\ calls[settled[1].call].op = "sendOperations"
    /\ calls[settled[1].call].pc = "returned"
    /\ settled[1].afterSend = Some([opHash |-> "r2", opResults |-> "o1"])
    /\ settled[1].value = "r2"

(***************************************************************************)
(* Properties of the confirmation page (PageSpec).                         *)
(***************************************************************************)

\* C17: a confirmation page entered at a location without an id (the
\* parameter absent or empty) has failed with "Not identified" and stays so:
\* it has sent no request at all, neither a DAppGetPayloadRequest nor a
\* decision, and no attempt is in progress.
C17_NotIdentified ==
    (page.pc # "closed" /\ QueryId(page.search) \in {Null, Some("")}) =>
        /\ page.pc = "error"
        /\ page.fatal = Some(NotIdentified)
        /\ page.payload = Null
        /\ ~ page.confirming /\ ~ page.declining
        /\ sent = <<>>
        /\ calls = <<>>

\* The page was entered at "?id=" and has failed.
C17_Witness ==
    /\ page.pc = "error"
    /\ page.search = "?id="
    /\ page.fatal = Some(NotIdentified)

(***************************************************************************)
(* The pending confirmation against the tracked id (Spec).                 *)
(***************************************************************************)

\* C22: whenever a pending confirmation is exposed, its id is the tracked
\* id, also after overlapping sendOperations / sign calls.
C22_PendingIsTracked ==
    \A k \in DOMAIN confirmation : confirmationIdRef = Some(confirmation[k].id)

(***************************************************************************)
(* Properties of the decision attempts on the page (PageSpec).             *)
(***************************************************************************)

\* The decision calls the page has in flight.
DecisionsInFlight ==
    {i \in DOMAIN calls :
        /\ calls[i].op \in {"confirmDAppPermission", "confirmDAppOperation"}
        /\ calls[i].pc \in {"awaiting", "awaitingKey"}}

\* C21: when a decision fails, the task that ends the attempt displays the
\* error in a render in which the flag of the attempt is still set and
\* clears the flag in the render after it; both flags are false when that
\* task, or a successful attempt, has ended, the form staying shown for
\* another attempt; a flag is set only while an attempt is under way (its
\* request in flight or its delay running); and the step that starts an
\* attempt clears the error and sets exactly the flag of the button clicked.
C21_ErrorThenRetry ==
    [][/\ (page.error = Null /\ page'.error # Null) =>
            /\ page.confirming \/ page.declining
            /\ page'.error = page.delayed
            /\ page'.error[1] \in AuthorityErrors \cup {InvalidResponse}
            /\ page'.renders =
                 <<[error |-> page.delayed, confirming |-> page.confirming,
                    declining |-> page.declining],
                   [error |-> page.delayed, confirming |-> FALSE,
                    declining |-> FALSE]>>
            /\ ~ page'.confirming /\ ~ page'.declining
            /\ page'.pc = "ready"
       /\ ((page.confirming \/ page.declining)
             /\ ~ page'.confirming /\ ~ page'.declining) =>
               \/ page.delayed # Null /\ page'.error = page.delayed
               \/ /\ settled' # Null
                  /\ calls'[settled'[1].call].pc = "returned"
                  /\ page'.error = Null
       /\ (page'.confirming \/ page'.declining) =>
            \/ DecisionsInFlight' # {}
            \/ page'.delayed # Null
       /\ (page.pc = "ready" /\ Len(calls') = Len(calls) + 1) =>
            /\ page'.error = Null
            /\ page'.confirming # page'.declining
            /\ page'.pc = "ready"]_vars

\* After a decision failed and its error was shown with both flags back to
\* false, a second attempt is in flight and the error is cleared.
C21_Witness ==
    /\ page.pc = "ready"
    /\ page.error = Null
    /\ page.confirming
    /\ Len(calls) = 3
    /\ calls[2].op \in {"confirmDAppPermission", "confirmDAppOperation"}
    /\ calls[2].pc = "failed"
    /\ calls[3].pc \in {"awaiting", "awaitingKey"}

\* C23: at most one decision of the page is in flight at any time, and
\* confirming and declining are never both true; in a state where one of
\* them is true no step starts a call, and the only request a step can send
\* is the second one of the confirmDAppPermission in flight, when its
\* getPublicKey returns.
C23_OneDecisionInFlight ==
    [][/\ Cardinality(DecisionsInFlight') <= 1
       /\ ~ (page'.confirming /\ page'.declining)
       /\ (page.confirming \/ page.declining) =>
            /\ Len(calls') = Len(calls)
            /\ sent' # sent =>
                 /\ settled' # Null
                 /\ settled'[1].call \in DecisionsInFlight
                 /\ calls[settled'[1].call].pc = "awaitingKey"
                 /\ Len(sent') = Len(sent) + 1]_vars

\* While an approval is in progress, its DAppPermConfirmationRequest in
\* flight, the user has acted on the form again and nothing was sent.
C23_Witness ==
    /\ page.confirming /\ ~ page.declining
    /\ settled = Null
    /\ DecisionsInFlight = {2}
    /\ calls[2].op = "confirmDAppPermission"
    /\ calls[2].pc = "awaiting"
    /\ Len(calls) = 2
    /\ Len(sent) = 3

(***************************************************************************)
(* The key lookup of confirmDAppPermission (FacadeSpec).                   *)
(***************************************************************************)

\* C24: every confirmDAppPermission call, approval or decline, starts by
\* sending the RevealPublicKeyRequest for its pkh and nothing else; when
\* that lookup fails the call fails with it and sends nothing, and a failed
\* call never sends later, so no DAppPermConfirmationRequest of that call
\* ever reaches the authority.
C24_LookupForEveryDecision ==
    [][/\ Started("confirmDAppPermission") =>
            LET n == Len(calls') IN
              /\ calls'[n].pc = "awaitingKey"
              /\ Len(sent') = Len(sent) + 1
              /\ sent'[Len(sent')].type = "RevealPublicKeyRequest"
              /\ sent'[Len(sent')].accountPublicKeyHash = calls'[n].pkh
              /\ sent'[Len(sent')].call = n
       /\ \A i \in DOMAIN calls :
            (calls[i].op = "confirmDAppPermission" /\ calls[i].pc = "awaitingKey"
               /\ calls'[i].pc # "awaitingKey") =>
                 IF settled'[1].res.kind = "response"
                      /\ settled'[1].res.type = "RevealPublicKeyResponse"
                   THEN calls'[i].pc = "awaiting"
                   ELSE /\ calls'[i].pc = "failed"
                        /\ sent' = sent
                        /\ \A k \in DOMAIN sent' :
                             sent'[k].call = i =>
                                sent'[k].type = "RevealPublicKeyRequest"
       /\ \A i \in DOMAIN calls :
            calls[i].pc = "failed" =>
               \A k \in DOMAIN sent' : k > Len(sent) => sent'[k].call # i]_vars

\* A decline has just failed with the error the authority rejected its key
\* lookup with; the lookup is the only request that was sent.
C24_Witness ==
    /\ Len(calls) = 1
    /\ calls[1].op = "confirmDAppPermission"
    /\ ~ calls[1].confirmed
    /\ calls[1].pc = "failed"
    /\ settled # Null
    /\ settled[1].res.kind = "rejected"
    /\ Len(sent) = 1
    /\ sent[1].type = "RevealPublicKeyRequest"

(***************************************************************************)
(* The decisions the page sends (PageSpec).                                *)
(***************************************************************************)

\* C25: a call the shown form starts carries the id of the page's query
\* string and is the operation of the payload's kind: confirmDAppPermission
\* with the account selected at the click for "connect", confirmDAppOperation
\* for "confirm_operations"; every decision request sent has that id, the
\* type of that kind and, for a connection, the pkh of its call; and no step
\* of the page changes the tracked id or the pending confirmation.
C25_DecisionMatchesPayload ==
    [][/\ (page.pc = "ready" /\ Len(calls') = Len(calls) + 1) =>
            LET c == calls'[Len(calls')] IN
              /\ c.id = QueryId(page.search)[1]
              /\ IF page.payload = Some("connect")
                   THEN /\ c.op = "confirmDAppPermission"
                        /\ c.pkh = page.accountPkhToConnect
                        /\ c.confirmed = page'.confirming
                   ELSE /\ page.payload = Some("confirm_operations")
                        /\ c.op = "confirmDAppOperation"
                        /\ sent'[Len(sent')].confirmed = page'.confirming
       /\ \A k \in DOMAIN sent' :
            (k > Len(sent)
               /\ sent'[k].type \in {"DAppPermConfirmationRequest",
                                     "DAppOpsConfirmationRequest"}) =>
                 /\ sent'[k].id = QueryId(page.search)[1]
                 /\ sent'[k].type = IF page.payload = Some("connect")
                                      THEN "DAppPermConfirmationRequest"
                                      ELSE "DAppOpsConfirmationRequest"
                 /\ sent'[k].type = "DAppPermConfirmationRequest" =>
                      sent'[k].accountPublicKeyHash = calls'[sent'[k].call].pkh
       /\ UNCHANGED <<confirmationIdRef, confirmation>>]_vars

\* After an attempt for account "tz1a", the user selected "tz1b" and the
\* connection decision for id "d1" has been sent with "tz1b"; nothing is
\* tracked.
C25_Witness ==
    /\ page.payload = Some("connect")
    /\ page.accountPkhToConnect = "tz1b"
    /\ confirmationIdRef = Null
    /\ \E j, k \in DOMAIN sent :
         /\ j < k
         /\ sent[j].type = "RevealPublicKeyRequest"
         /\ sent[j].accountPublicKeyHash = "tz1a"
         /\ sent[k].type = "DAppPermConfirmationRequest"
         /\ sent[k].id = "d1"
         /\ sent[k].accountPublicKeyHash = "tz1b"

====
